---------------------------- MODULE Spec2Model ----------------------------
(***************************************************************************)
(* A model of config-file (src/lib.rs): FromConfigFile::from_config_file   *)
(* picks a deserializer from the extension of the path it is given, reads  *)
(* the file and decodes it.                                                *)
(*                                                                         *)
(* Paths and extensions are sequences of one-character strings, so that    *)
(* Path::extension, str::to_lowercase and the match on the extension are   *)
(* computed character by character.  The file system is the environment.  *)
(* The deserializers (toml, serde_json, serde_yaml, serde_xml_rs) are      *)
(* third-party crates: they are modelled by what they accept.              *)
(***************************************************************************)
EXTENDS Naturals, Sequences, FiniteSets

(***************************************************************************)
(* Bounds of the model.                                                    *)
(***************************************************************************)
\* Longest stem put in front of the extension in the generated file names.
MaxStemLen == 2
\* Number of files that exist on disk at the same time.
MaxFiles == 1

(***************************************************************************)
(* Option<T>: None is the empty sequence, Some(x) the one-element one.     *)
(***************************************************************************)
None == << >>
Some(x) == << x >>

(***************************************************************************)
(* Characters.  NonUtf8 stands for a byte sequence that is not valid       *)
(* UTF-8 (an OsStr may hold one, a str may not).                           *)
(***************************************************************************)
UpperChars == << "A", "B", "C", "D", "E", "F", "G", "H", "I", "J", "K", "L", "M",
                 "N", "O", "P", "Q", "R", "S", "T", "U", "V", "W", "X", "Y", "Z" >>
LowerChars == << "a", "b", "c", "d", "e", "f", "g", "h", "i", "j", "k", "l", "m",
                 "n", "o", "p", "q", "r", "s", "t", "u", "v", "w", "x", "y", "z" >>
NonUtf8 == "\\xFF"

\* char::to_lowercase on the characters of the model.
ToLowerChar(c) ==
  IF \E i \in 1..Len(UpperChars) : UpperChars[i] = c
  THEN LowerChars[CHOOSE i \in 1..Len(UpperChars) : UpperChars[i] = c]
  ELSE c

\* A comparison of the extension as it is spelled, without lower-casing.
NoLowercase(s) == s

\* str::to_lowercase (line 54).
to_lowercase(s) == [i \in 1..Len(s) |-> ToLowerChar(s[i])]

\* OsStr::to_str (line 53): None when the OsStr is not valid UTF-8.
to_str(os) ==
  IF \E i \in 1..Len(os) : os[i] = NonUtf8 THEN None ELSE Some(os)

(***************************************************************************)
(* std::path::Path::file_name and Path::extension (line 52).               *)
(***************************************************************************)
RECURSIVE SplitOn(_, _)
\* s split at every occurrence of sep, empty pieces kept.
SplitOn(s, sep) ==
  IF \A i \in 1..Len(s) : s[i] # sep
  THEN << s >>
  ELSE LET k == CHOOSE i \in 1..Len(s) :
                  s[i] = sep /\ \A j \in 1..(i - 1) : s[j] # sep
       IN  << SubSeq(s, 1, k - 1) >> \o SplitOn(SubSeq(s, k + 1, Len(s)), sep)

IsNamedComponent(seg) == seg # << >> /\ seg # << "." >>

\* Path::components as far as file_name needs it: repeated separators, a
\* trailing separator and "." components are normalised away.
Components(p) == SelectSeq(SplitOn(p, "/"), IsNamedComponent)

\* Path::file_name: the last component when it is a normal one.
file_name(p) ==
  LET c == Components(p)
  IN  IF c = << >> \/ c[Len(c)] = << ".", "." >> THEN None ELSE Some(c[Len(c)])

\* A split at the final dot that also takes a leading dot for a separator.
rsplit_at_any_dot(file) ==
  IF \A i \in 1..Len(file) : file[i] # "."
  THEN << None, Some(file) >>
  ELSE LET k == CHOOSE i \in 1..Len(file) :
                  file[i] = "." /\ \A j \in (i + 1)..Len(file) : file[j] # "."
       IN  << Some(SubSeq(file, 1, k - 1)), Some(SubSeq(file, k + 1, Len(file))) >>

\* rsplit_file_at_dot of std::path: << before, after >> as two Options.
rsplit_file_at_dot(file) ==
  IF file = << ".", "." >> THEN << Some(file), None >>
  ELSE IF \A i \in 1..Len(file) : file[i] # "."
       THEN << None, Some(file) >>
       ELSE LET k == CHOOSE i \in 1..Len(file) :
                       file[i] = "." /\ \A j \in (i + 1)..Len(file) : file[j] # "."
                before == SubSeq(file, 1, k - 1)
                after  == SubSeq(file, k + 1, Len(file))
            IN  IF before = << >> THEN << Some(file), None >>
                ELSE << Some(before), Some(after) >>

\* Path::extension: before.and(after) of the file name's split.
extension_of(p) ==
  LET f == file_name(p)
  IN  IF f = None THEN None
      ELSE LET ba == rsplit_file_at_dot(f[1])
           IN  IF ba[1] = None THEN None ELSE ba[2]

\* Lines 51-54: path.extension().and_then(OsStr::to_str).map(to_lowercase).
LoweredExtension(p) ==
  LET e == extension_of(p)
  IN  IF e = None THEN None
      ELSE LET s == to_str(e[1])
           IN  IF s = None THEN None ELSE Some(to_lowercase(s[1]))


(***************************************************************************)
(* The extensions the match of line 55 names, and the cargo features that  *)
(* compile each arm in (lines 56, 60, 67, 71).                             *)
(***************************************************************************)
ext_json == << "j", "s", "o", "n" >>
ext_toml == << "t", "o", "m", "l" >>
ext_xml  == << "x", "m", "l" >>
ext_yaml == << "y", "a", "m", "l" >>
ext_yml  == << "y", "m", "l" >>

Features == {"json", "toml", "xml", "yaml"}

\* A match whose last arm falls back to TOML instead of failing.
DispatchFallbackToml(extension, feats) ==
  IF "json" \in feats /\ extension = Some(ext_json) THEN "json"
  ELSE IF "toml" \in feats /\ extension = Some(ext_toml) THEN "toml"
  ELSE IF "xml" \in feats /\ extension = Some(ext_xml) THEN "xml"
  ELSE IF "yaml" \in feats /\ (extension = Some(ext_yaml) \/ extension = Some(ext_yml))
       THEN "yaml"
  ELSE IF "toml" \in feats THEN "toml"
  ELSE "unsupported"

\* A match whose YAML arm names "yaml" only.
DispatchNoYml(extension, feats) ==
  IF "json" \in feats /\ extension = Some(ext_json) THEN "json"
  ELSE IF "toml" \in feats /\ extension = Some(ext_toml) THEN "toml"
  ELSE IF "xml" \in feats /\ extension = Some(ext_xml) THEN "xml"
  ELSE IF "yaml" \in feats /\ extension = Some(ext_yaml) THEN "yaml"
  ELSE "unsupported"

\* A match whose JSON arm is compiled in whatever the features.
DispatchJsonUngated(extension, feats) ==
  IF extension = Some(ext_json) THEN "json"
  ELSE IF "toml" \in feats /\ extension = Some(ext_toml) THEN "toml"
  ELSE IF "xml" \in feats /\ extension = Some(ext_xml) THEN "xml"
  ELSE IF "yaml" \in feats /\ (extension = Some(ext_yaml) \/ extension = Some(ext_yml))
       THEN "yaml"
  ELSE "unsupported"

\* The match of lines 55-76 under the features of the build: the arm taken.
Dispatch(extension, feats) ==
  IF "json" \in feats /\ extension = Some(ext_json) THEN "json"
  ELSE IF "toml" \in feats /\ extension = Some(ext_toml) THEN "toml"
  ELSE IF "xml" \in feats /\ extension = Some(ext_xml) THEN "xml"
  ELSE IF "yaml" \in feats /\ (extension = Some(ext_yaml) \/ extension = Some(ext_yml))
       THEN "yaml"
  ELSE "unsupported"

(***************************************************************************)
(* ConfigFileError (lines 86-110) and the Result of from_config_file.      *)
(***************************************************************************)
ErrorKinds == {"FileAccess", "Json", "Toml", "Xml", "Yaml", "UnsupportedFormat"}

Ok(v) == [kind |-> "Ok", value |-> Some(v)]
Err(k) == [kind |-> k, value |-> None]
Pending == [kind |-> "pending", value |-> None]

\* The map_err of each arm (lines 58, 66, 69, 73): the variant that wraps
\* the error of the arm's deserializer.
ParseErrorOf(a) ==
  IF a = "json" THEN "Json"
  ELSE IF a = "toml" THEN "Toml"
  ELSE IF a = "xml" THEN "Xml"
  ELSE "Yaml"

\* TestConfig::example (lines 133-140).
Example ==
  [host |-> "example.com", port |-> 443, tags |-> << "example", "test" >>,
   inner |-> [answer |-> 42]]

(***************************************************************************)
(* The file system.  A path names nothing (open fails), a directory (open  *)
(* succeeds and every read fails), or a regular file with some contents.   *)
(***************************************************************************)
Contents ==
  {"example.json", "example.toml", "example.xml", "example.yaml", "truncated", "binary"}

Absent     == [kind |-> "absent", content |-> ""]
Directory  == [kind |-> "dir", content |-> ""]
Regular(c) == [kind |-> "file", content |-> c]
FileStates == {Absent, Directory} \cup {Regular(c) : c \in Contents}

\* An open that creates the file it does not find.
OpenCreates(f) == TRUE

\* File::open (line 82, and inside std::fs::read_to_string, line 62).
OpenSucceeds(f) == f.kind # "absent"
\* Reading the bytes of an open file to the end.
ReadSucceeds(f) == f.kind = "file"
\* String::from_utf8 inside std::fs::read_to_string.
IsUtf8(c) == c # "binary"

(***************************************************************************)
(* The deserializers, by what they accept: each accepts the example        *)
(* written in its own syntax, the YAML one also JSON (YAML's flow syntax), *)
(* and none accepts the truncated or the binary contents.                  *)
(***************************************************************************)
Accepts(a, c) ==
  \/ a = "json" /\ c = "example.json"
  \/ a = "toml" /\ c = "example.toml"
  \/ a = "xml"  /\ c = "example.xml"
  \/ a = "yaml" /\ c \in {"example.yaml", "example.json"}

\* What a deserializer returns on contents it was given in full.
Deserialize(a, c) == IF Accepts(a, c) THEN Ok(Example) ELSE Err("parse")

\* serde_json / serde_xml_rs / serde_yaml ::from_reader(File): the reader
\* pulls the bytes itself, and a failed read comes back as its own error.
from_reader(a, f) ==
  IF ReadSucceeds(f) THEN Deserialize(a, f.content) ELSE Err("io")

\* A conversion that reports every error of the deserializer as FileAccess.
MapErrFileAccess(a, r) == IF r.kind = "Ok" THEN r ELSE [kind |-> "FileAccess", value |-> None]

\* map_err(ConfigFileError::Json / Toml / Xml / Yaml): every error of the
\* deserializer is wrapped in the arm's variant.
MapErr(a, r) == IF r.kind = "Ok" THEN r ELSE Err(ParseErrorOf(a))

\* A File that is leaked instead of dropped.
LeakFile(h) == h

\* Dropping a File closes its descriptor.
DropFile(h) == h - 1

\* An open that truncates the file, as File::create does.
OpenTruncates(f) == IF f.kind = "file" THEN [kind |-> "file", content |-> "truncated"] ELSE f

\* File::open opens for reading only: what the path names after the open.
AfterOpen(f) == f


(***************************************************************************)
(* The paths the callers of the model pass.                                *)
(***************************************************************************)
Named(stem, ext) == stem \o << "." >> \o ext

\* "/tmp/foobar" of test_unknown (line 145).
NoExtensionPath == << "/", "t", "m", "p", "/", "f", "o", "o", "b", "a", "r" >>

\* The paths loaded while files come and go: one per arm of the match, the
\* second YAML spelling, an upper-case spelling and one without extension.
LoadPaths ==
  {Named(<< "c" >>, e) : e \in {ext_json, ext_toml, ext_xml, ext_yaml, ext_yml}}
    \cup {Named(<< "c" >>, << "T", "O", "M", "L" >>), NoExtensionPath}

VARIABLES
  features,   \* the cargo features of the build: a subset of Features
  fs,         \* the file system: what each path of LoadPaths names
  pc,         \* where the running call of from_config_file stands
  path,       \* its argument
  extension,  \* the local of lines 51-54
  arm,        \* the arm the match of line 55 took
  handles,    \* the number of Files the process holds open
  text,       \* the String std::fs::read_to_string returned (line 62)
  result,     \* the Result the call returns
  io,         \* the file operations the call has performed
  ran,        \* the deserializers the call has run
  prev        \* an earlier call on a file unchanged since: its path and result

vars ==
  << features, fs, pc, path, extension, arm, handles, text, result, io, ran, prev >>

\* What the path names; the paths outside LoadPaths name nothing.
Lookup(p) == IF p \in DOMAIN fs THEN fs[p] ELSE Absent

\* The file system once File::open(p) has run.
Opened(p) == IF p \in DOMAIN fs THEN [fs EXCEPT ![p] = AfterOpen(fs[p])] ELSE fs

Init ==
  /\ features \in SUBSET Features
  /\ fs = [p \in LoadPaths |-> Absent]
  /\ pc = "idle"
  /\ path = << >>
  /\ extension = None
  /\ arm = "none"
  /\ handles = 0
  /\ text = None
  /\ result = Pending
  /\ io = << >>
  /\ ran = << >>
  /\ prev = None

(***************************************************************************)
(* from_config_file, lines 46-77, one action per step.                     *)
(***************************************************************************)
\* Lines 50-54: the call is entered and the lower-cased extension computed.
Call(p) ==
  /\ pc = "idle"
  /\ pc' = "match"
  /\ path' = p
  /\ extension' = LoweredExtension(p)
  /\ UNCHANGED << features, fs, arm, handles, text, result, io, ran, prev >>

\* Line 55: the match.  The arm of line 75 returns at once.
Match ==
  /\ pc = "match"
  /\ arm' = Dispatch(extension, features)
  /\ IF arm' = "unsupported"
     THEN /\ result' = Err("UnsupportedFormat")
          /\ pc' = "done"
     ELSE /\ result' = result
          /\ pc' = IF arm' = "toml" THEN "read_to_string" ELSE "open_file"
  /\ UNCHANGED << features, fs, path, extension, handles, text, io, ran, prev >>

\* open_file, lines 81-83, called from lines 58, 69 and 73; the ? returns
\* its FileAccess error.
OpenFile ==
  /\ pc = "open_file"
  /\ io' = Append(io, "open")
  /\ IF OpenSucceeds(Lookup(path))
     THEN /\ handles' = handles + 1
          /\ pc' = "from_reader"
          /\ result' = result
     ELSE /\ handles' = handles
          /\ pc' = "done"
          /\ result' = Err("FileAccess")
  /\ fs' = Opened(path)
  /\ UNCHANGED << features, path, extension, arm, text, ran, prev >>

\* Lines 58, 69, 73: from_reader consumes the File, which is dropped when
\* it returns, and map_err wraps its error.
FromReader ==
  /\ pc = "from_reader"
  /\ io' = Append(io, "read")
  /\ ran' = Append(ran, arm)
  /\ result' = MapErr(arm, from_reader(arm, Lookup(path)))
  /\ handles' = DropFile(handles)
  /\ pc' = "done"
  /\ UNCHANGED << features, fs, path, extension, arm, text, prev >>

\* Line 62, first half of std::fs::read_to_string: File::open.
ReadToStringOpen ==
  /\ pc = "read_to_string"
  /\ io' = Append(io, "open")
  /\ IF OpenSucceeds(Lookup(path))
     THEN /\ handles' = handles + 1
          /\ pc' = "reading"
          /\ result' = result
     ELSE /\ handles' = handles
          /\ pc' = "done"
          /\ result' = Err("FileAccess")
  /\ fs' = Opened(path)
  /\ UNCHANGED << features, path, extension, arm, text, ran, prev >>

\* Lines 62-63, second half: the bytes are read and checked to be UTF-8, the
\* File is dropped, and map_err(FileAccess)? returns the io::Error.
ReadToStringRead ==
  /\ pc = "reading"
  /\ io' = Append(io, "read")
  /\ handles' = DropFile(handles)
  /\ IF ReadSucceeds(Lookup(path)) /\ IsUtf8(Lookup(path).content)
     THEN /\ text' = Some(Lookup(path).content)
          /\ pc' = "from_str"
          /\ result' = result
     ELSE /\ text' = text
          /\ pc' = "done"
          /\ result' = Err("FileAccess")
  /\ UNCHANGED << features, fs, path, extension, arm, ran, prev >>

\* Lines 61-66: toml::from_str on the String, and map_err(Toml).
FromStr ==
  /\ pc = "from_str"
  /\ ran' = Append(ran, arm)
  /\ result' = MapErr(arm, Deserialize(arm, text[1]))
  /\ pc' = "done"
  /\ UNCHANGED << features, fs, path, extension, arm, handles, text, io, prev >>

\* The call returns and its locals go.  The caller may keep the result as
\* the one a later call on the same path is compared with.
Return(keep) ==
  /\ pc = "done"
  /\ pc' = "idle"
  /\ prev' = IF keep THEN Some([path |-> path, result |-> result]) ELSE prev
  /\ path' = << >>
  /\ extension' = None
  /\ arm' = "none"
  /\ text' = None
  /\ result' = Pending
  /\ io' = << >>
  /\ ran' = << >>
  /\ UNCHANGED << features, fs, handles >>

(***************************************************************************)
(* The environment: between two calls a file is created, replaced or       *)
(* removed.  A kept result of that path is no longer of an unchanged file. *)
(***************************************************************************)
WriteFile(p, f) ==
  /\ pc = "idle"
  /\ fs[p] # f
  /\ f # Absent => Cardinality({q \in LoadPaths \ {p} : fs[q] # Absent}) < MaxFiles
  /\ fs' = [fs EXCEPT ![p] = f]
  /\ prev' = IF prev # None /\ prev[1].path = p THEN None ELSE prev
  /\ UNCHANGED << features, pc, path, extension, arm, handles, text, result, io, ran >>

Next ==
  \/ \E p \in LoadPaths : Call(p)
  \/ Match
  \/ OpenFile
  \/ FromReader
  \/ ReadToStringOpen
  \/ ReadToStringRead
  \/ FromStr
  \/ \E keep \in BOOLEAN : Return(keep)
  \/ \E p \in LoadPaths, f \in FileStates : WriteFile(p, f)

Spec == Init /\ [][Next]_vars


(***************************************************************************)
(* The paths classified on an empty disk: every spelling of the known      *)
(* extensions, their near misses, and file names built from stems, dots,   *)
(* directories and trailing separators.                                    *)
(***************************************************************************)
KnownWords == {ext_json, ext_toml, ext_xml, ext_yaml, ext_yml}

ToUpperChar(c) ==
  IF \E i \in 1..Len(LowerChars) : LowerChars[i] = c
  THEN UpperChars[CHOOSE i \in 1..Len(LowerChars) : LowerChars[i] = c]
  ELSE c

\* Every upper/lower-case spelling of w.
CaseVariants(w) ==
  {[i \in 1..Len(w) |-> IF i \in S THEN ToUpperChar(w[i]) ELSE w[i]] :
     S \in SUBSET (1..Len(w))}

\* Proper prefixes and suffixes of the known words, and the known words with
\* one more character in front or behind; one that is not UTF-8.
NearMisses ==
  (UNION {{SubSeq(w, 1, k) : k \in 0..(Len(w) - 1)} \cup
          {SubSeq(w, k, Len(w)) : k \in 2..Len(w)} \cup
          {w \o << c >> : c \in {"x", "c", "5"}} \cup
          {<< c >> \o w : c \in {"x", "c"}} \cup
          {w \o << NonUtf8 >>} : w \in KnownWords}) \ KnownWords

ConfigStem == << "c", "o", "n", "f", "i", "g" >>

CasePaths ==
  {Named(ConfigStem, v) : v \in UNION {CaseVariants(w) : w \in KnownWords}}
    \cup {Named(ConfigStem, m) : m \in NearMisses}

StemChars == {"a", "."}
Stems == UNION {[1..n -> StemChars] : n \in 0..MaxStemLen}
DirPrefixes ==
  {<< >>, << "/" >>, << "e", ".", "d", "/" >>, << "c", ".", "t", "o", "m", "l", "/" >>}
Trailers == {<< >>, << "/" >>, << "/", "." >>}
StructureExts == {<< >>, ext_toml, ext_yml, << "J", "s", "o", "n" >>}

StructurePaths ==
  {d \o s \o dot \o e \o t :
     d \in DirPrefixes, s \in Stems, dot \in {<< >>, << "." >>},
     e \in StructureExts, t \in Trailers}

\* Paths the specification's sentences name.
ExamplePaths ==
  {Named(Named(<< "a" >>, ext_json), ext_toml),
   Named(Named(<< "a" >>, ext_toml), ext_json),
   << "/", "e", "t", "c", "/", "c", "o", "n", "f", ".", "d", "/", "a", "p", "p" >>,
   NoExtensionPath}

ClassifyPaths == CasePaths \cup StructurePaths \cup ExamplePaths

\* Calls on any of these paths, in any order, on a disk that stays empty.
NextClassify ==
  \/ \E p \in ClassifyPaths : Call(p)
  \/ Match
  \/ OpenFile
  \/ ReadToStringOpen
  \/ Return(FALSE)

SpecClassify == Init /\ [][NextClassify]_vars


(***************************************************************************)
(* What the properties below are stated with.                              *)
(***************************************************************************)
\* The format an extension names once lower-cased, by the table of the
\* documentation: toml, json, yaml and yml, xml.
FormatOfWord(w) ==
  IF w = ext_json THEN "json"
  ELSE IF w = ext_toml THEN "toml"
  ELSE IF w = ext_xml THEN "xml"
  ELSE IF w = ext_yaml \/ w = ext_yml THEN "yaml"
  ELSE "none"

\* The parse error a format reports.
ParseKindOfFormat(f) ==
  CASE f = "json" -> "Json" [] f = "toml" -> "Toml" [] f = "xml" -> "Xml"
    [] f = "yaml" -> "Yaml" [] OTHER -> "none"

\* The well-formed file that holds the example in a format.
ExampleFileOf(f) ==
  CASE f = "json" -> Regular("example.json") [] f = "toml" -> Regular("example.toml")
    [] f = "xml" -> Regular("example.xml") [] f = "yaml" -> Regular("example.yaml")
    [] OTHER -> Absent

\* The extension of the running call names a format of the build.
ExtensionEnabled ==
  extension # None /\ FormatOfWord(extension[1]) \in features

\* The format the extension of the running call names ("none" if none).
NamedFormat == IF extension = None THEN "none" ELSE FormatOfWord(extension[1])

\* The call has passed the match of line 55.
Matched == pc \notin {"idle", "match"}

\* C1: a path whose extension is absent or, lower-cased, none of toml, json,
\* yaml, yml, xml makes from_config_file return UnsupportedFormat, and the
\* call opens and reads nothing, whether or not the path names a file.
C1_UnknownExtensionNoIO ==
  (pc # "idle" /\ NamedFormat = "none") =>
     /\ pc \in {"match", "done"}
     /\ io = << >>
     /\ ran = << >>
     /\ handles = 0
     /\ pc = "done" => result = Err("UnsupportedFormat")

C1_Witness ==
  /\ pc = "done"
  /\ path = NoExtensionPath
  /\ Lookup(path) = Regular("example.toml")
  /\ "toml" \in features
  /\ result = Err("UnsupportedFormat")
  /\ io = << >>

\* C2: a path whose extension names a format of the build and that names no
\* file makes from_config_file return FileAccess, not UnsupportedFormat and
\* not a parse error, and no deserializer runs.
C2_MissingFileIsFileAccess ==
  (pc = "done" /\ ExtensionEnabled /\ Lookup(path) = Absent) =>
     /\ result = Err("FileAccess")
     /\ ran = << >>

C2_Witness ==
  /\ pc = "done"
  /\ path = Named(<< "c" >>, ext_toml)
  /\ Lookup(path) = Absent
  /\ result = Err("FileAccess")

\* C3 as stated: a file that is opened and whose bytes are read, with
\* contents invalid for the format its extension names, yields the parse
\* error of that format.
C3_AsStated ==
  (pc = "done" /\ ExtensionEnabled /\ Lookup(path).kind = "file"
     /\ ~Accepts(NamedFormat, Lookup(path).content)) =>
     result = Err(ParseKindOfFormat(NamedFormat))

\* C3, amended: a file that is opened and read, and for .toml whose bytes
\* are valid UTF-8, with contents invalid for the format its extension
\* names, yields the parse error of exactly that format, and the only
\* deserializer that runs is that format's; no call runs more than one.
C3_InvalidContentsIsOwnParseError ==
  /\ Len(ran) <= 1
  /\ \A i \in 1..Len(ran) : ran[i] = NamedFormat
  /\ (pc = "done" /\ ExtensionEnabled /\ Lookup(path).kind = "file"
        /\ (NamedFormat = "toml" => Lookup(path).content # "binary")
        /\ ~Accepts(NamedFormat, Lookup(path).content)) =>
       /\ result = Err(ParseKindOfFormat(NamedFormat))
       /\ ran = << NamedFormat >>

\* A .toml file that holds valid JSON: the TOML error, JSON never tried.
C3_Witness ==
  /\ pc = "done"
  /\ path = Named(<< "c" >>, ext_toml)
  /\ Lookup(path) = Regular("example.json")
  /\ "json" \in features
  /\ result = Err("Toml")
  /\ ran = << "toml" >>

\* C4: in every format, a failure to open the file or to read its bytes
\* (a read that fails after the open succeeded included) is reported as
\* FileAccess, and a parse error (Toml, Json, Yaml, Xml) is returned only
\* when the file was read in full.
C4_ReadFailureIsFileAccess ==
  (pc = "done" /\ ExtensionEnabled) =>
     /\ (~OpenSucceeds(Lookup(path)) \/ ~ReadSucceeds(Lookup(path))) =>
          result = Err("FileAccess")
     /\ result.kind \in {"Json", "Toml", "Xml", "Yaml"} => ReadSucceeds(Lookup(path))

\* C5: a well-formed file that holds the example value in the format its
\* extension names (.yml and .yaml alike) loads as Ok of that value, for
\* every format of the build: the value does not depend on the format.
C5_ExampleLoadsInEveryFormat ==
  (pc = "done" /\ ExtensionEnabled /\ Lookup(path) = ExampleFileOf(NamedFormat)) =>
     result = Ok(Example)

C5_Witness ==
  /\ pc = "done"
  /\ path = Named(<< "c" >>, ext_yml)
  /\ Lookup(path) = Regular("example.yaml")
  /\ result = Ok(Example)

\* A call leaves the build and the file system as they are.
CallKeepsFiles == pc # "idle" => (fs' = fs /\ features' = features)

\* C8: a call on a path whose file is unchanged since an earlier call on it
\* returns what that call returned, success or the same error, whatever
\* calls on this and other paths came between; and no step of a call
\* changes the file system or the build, nor leaves a File open behind it.
C8_RepeatedLoadSameResult ==
  /\ [](pc = "done" /\ prev # None /\ prev[1].path = path => result = prev[1].result)
  /\ [](pc = "idle" => handles = 0)
  /\ [][CallKeepsFiles]_vars

\* The second call on a file that loaded: the same Ok again.
C8_Witness ==
  /\ pc = "done"
  /\ prev = Some([path |-> path, result |-> Ok(Example)])
  /\ result = Ok(Example)

\* C9: under every set of features, an extension that names a format left
\* out of the build is handled like an unknown one (UnsupportedFormat, no
\* file opened or read), an extension of a format of the build takes the
\* arm it takes with all features on, and with no feature on every call
\* returns UnsupportedFormat.
C9_DisabledFormatIsUnknown ==
  /\ (pc # "idle" /\ ~ExtensionEnabled) =>
        /\ io = << >>
        /\ ran = << >>
        /\ pc = "done" => result = Err("UnsupportedFormat")
  /\ (Matched /\ ExtensionEnabled) =>
        /\ arm = Dispatch(extension, Features)
        /\ arm = NamedFormat
  /\ (pc = "done" /\ features = {}) => result = Err("UnsupportedFormat")

\* A JSON file that exists, in a build without the json feature.
C9_Witness ==
  /\ pc = "done"
  /\ path = Named(<< "c" >>, ext_json)
  /\ Lookup(path) = Regular("example.json")
  /\ "json" \notin features
  /\ features # {}
  /\ result = Err("UnsupportedFormat")
  /\ io = << >>

\* The steps left to a call: each step of a call takes it strictly closer
\* to its return.
StepsLeft ==
  CASE pc = "match" -> 4
    [] pc \in {"open_file", "read_to_string"} -> 3
    [] pc \in {"from_reader", "reading"} -> 2
    [] pc = "from_str" -> 1
    [] OTHER -> 0

\* A step of a running call.
CallStep ==
  Match \/ OpenFile \/ FromReader \/ ReadToStringOpen \/ ReadToStringRead \/ FromStr

\* C10: a call that is running can always take its next step and has a
\* bounded number of steps left, and it ends with exactly one outcome, Ok
\* with a value or one error; a File is open only between its open and the
\* read that consumes it, so none is open when the call returns, be it
\* with a value, a parse error, a read error, a failed open or
\* UnsupportedFormat, nor between calls.
C10_OneOutcomeNoOpenFile ==
  /\ [](/\ handles = (IF pc \in {"from_reader", "reading"} THEN 1 ELSE 0)
        /\ pc = "done" =>
             /\ result.kind \in {"Ok"} \cup ErrorKinds
             /\ (result.kind = "Ok") = (result.value # None)
        /\ pc \notin {"idle", "done"} => (result = Pending /\ ENABLED CallStep))
  /\ [][pc \notin {"idle", "done"} => StepsLeft' < StepsLeft]_vars

\* A call that opened its file and failed to decode it has returned.
C10_Witness ==
  /\ pc = "done"
  /\ io = << "open", "read" >>
  /\ result = Err("Xml")
  /\ handles = 0

\* The arm an extension, as spelled in the path, is to take: that of the
\* known word it is a spelling of when the build has the format.
ArmOfSpelling(e, feats) ==
  IF e # None /\ \E w \in KnownWords : e[1] \in CaseVariants(w) /\ FormatOfWord(w) \in feats
  THEN FormatOfWord(CHOOSE w \in KnownWords : e[1] \in CaseVariants(w))
  ELSE "unsupported"

\* C6: the extension is matched whole and without regard to case: every
\* upper/lower-case spelling of toml, json, yaml, yml, xml takes the arm of
\* the lower-case spelling (yaml and yml the same one), and a proper
\* prefix, a proper suffix or a longer string takes the arm of line 75.
C6_CaseInsensitiveExactMatch ==
  Matched => arm = ArmOfSpelling(extension_of(path), features)

\* "config.ToML" is classified as TOML.
C6_Witness ==
  /\ Matched
  /\ path = Named(ConfigStem, << "T", "o", "M", "L" >>)
  /\ arm = "toml"

\* The largest index of c in s, 0 when s has no c.
LastIndexOf(s, c) ==
  CHOOSE i \in 0..Len(s) :
    (i = 0 \/ s[i] = c) /\ \A j \in (i + 1)..Len(s) : s[j] # c

\* What follows the final "/" of the path.
AfterLastSlash(p) == SubSeq(p, LastIndexOf(p, "/") + 1, Len(p))

RECURSIVE StripTrailers(_)
\* The path without its trailing "/" and "/." .
StripTrailers(p) ==
  IF Len(p) >= 1 /\ p[Len(p)] = "/" THEN StripTrailers(SubSeq(p, 1, Len(p) - 1))
  ELSE IF Len(p) >= 2 /\ p[Len(p) - 1] = "/" /\ p[Len(p)] = "."
       THEN StripTrailers(SubSeq(p, 1, Len(p) - 2))
  ELSE p

\* What follows the final "." of a segment, unless the segment has no "."
\* or only the one it starts with.
AfterFinalDot(seg) ==
  IF LastIndexOf(seg, ".") <= 1 THEN None
  ELSE Some(SubSeq(seg, LastIndexOf(seg, ".") + 1, Len(seg)))

\* C7 as stated: a final segment that is a dot followed by a known name,
\* such as ".toml", is classified by that name.
C7_AsStated ==
  \A w \in KnownWords :
    (Matched /\ AfterLastSlash(path) = << "." >> \o w /\ FormatOfWord(w) \in features) =>
       arm = FormatOfWord(w)

\* C7, amended: the extension that classifies a path is what follows the
\* final "." of its final segment (trailing "/" and "/." apart), provided
\* that "." is not the segment's first character: of several dots the last
\* counts, dots of earlier segments do not, and a segment with no ".", with
\* nothing after its final ".", or that is a dot followed by a known name
\* (".toml") takes the arm of line 75.  Every call takes exactly one arm.
C7_ExtensionIsAfterFinalDot ==
  Matched =>
    /\ arm \in Features \cup {"unsupported"}
    /\ arm = ArmOfSpelling(AfterFinalDot(AfterLastSlash(StripTrailers(path))), features)

\* ".toml" in a build with TOML: no extension, the arm of line 75.
C7_Witness ==
  /\ Matched
  /\ path = << "." >> \o ext_toml
  /\ "toml" \in features
  /\ arm = "unsupported"

=============================================================================
